---- MODULE Spec2Model ----
(***************************************************************************)
(* Metric computation engine of metrics-cc360-2025:                        *)
(*   metrics_registry.py  (MetricsRegistry, register_all_metrics)          *)
(*   snowflake_service.py (SnowflakeService)                               *)
(*   metrics_service.py   (MetricsService)                                 *)
(*   app_clean.py         (request handlers that own one MetricsService)   *)
(***************************************************************************)
EXTENDS Integers, Sequences, FiniteSets, TLC

VARIABLES
    metrics,               \* MetricsRegistry._metrics : key -> MetricConfig
    categories,            \* MetricsRegistry._categories
    conn,                  \* SnowflakeService.conn
    last_connection_time,  \* SnowflakeService.last_connection_time
    cache,                 \* MetricsService._cache (TTLCache)
    now,                   \* time.time()
    sessions,              \* number of warehouse sessions created so far
    request,               \* the call being served by a request handler
    response,              \* what that call returned (or raised)
    events,                \* what the call did: connects, queries, caught exception
    threads                \* where each request thread is inside execute_query

vars == <<metrics, categories, conn, last_connection_time, cache, threads, now,
          sessions, request, response, events>>

(***************************************************************************)
(* Bounds of the model                                                     *)
(***************************************************************************)
MaxTicks == 2
TickSeconds == 200
MaxDate == 1
MaxRows == 2
MaxThreads == 2

(***************************************************************************)
(* Program constants                                                       *)
(***************************************************************************)
connection_timeout == 300
default_range_days == 30
cache_ttl == 300

(***************************************************************************)
(* Python values                                                           *)
(***************************************************************************)
NoneV == [kind |-> "None"]
NaN == [kind |-> "nan"]
Num(i, h) == [kind |-> "num", int |-> i, half |-> h]
Str(s) == [kind |-> "str", s |-> s]
ListV(rows) == [kind |-> "list", rows |-> rows]

Ok(v) == [raised |-> FALSE, val |-> v]
Raise(t, m) == [raised |-> TRUE, exc |-> [type |-> t, msg |-> m]]

\* float(x) for a cell of a pandas row
PyFloat(cell) ==
    CASE cell.kind = "num" -> Ok(cell)
      [] cell.kind = "nan" -> Ok(NaN)
      [] OTHER -> Raise("ValueError", [text |-> "could not convert to float"])

\* int(x) for a cell of a pandas row: truncates, fails on NaN
PyInt(cell) ==
    CASE cell.kind = "num" -> Ok(cell.int)
      [] cell.kind = "nan" -> Raise("ValueError", [text |-> "cannot convert float NaN to integer"])
      [] OTHER -> Raise("ValueError", [text |-> "invalid literal for int()"])

(***************************************************************************)
(* metrics_registry.py                                                     *)
(***************************************************************************)
MetricType == {"percentage", "ratio", "count", "currency", "list", "pareto"}

\* MetricConfig(...): the dataclass with its defaults; the query builders
\* are named by the function the registry imports.
MetricConfig(key, title, category, metric_type, summary, details, requires_params) ==
    [key |-> key, title |-> title, category |-> category,
     metric_type |-> metric_type,
     summary_query_func |-> summary, details_query_func |-> details,
     cache_ttl |-> 300, requires_params |-> requires_params]

\* The dict MetricsRegistry._metrics as an insertion-ordered list of configs
\* with pairwise distinct keys.
DictKeys(d) == {d[i].key : i \in 1..Len(d)}

DictGet(d, key) ==
    IF key \in DictKeys(d)
    THEN (CHOOSE i \in 1..Len(d) : d[i].key = key)
    ELSE 0

\* MetricsRegistry.get_metric: self._metrics.get(key)
get_metric(key) ==
    IF DictGet(metrics, key) = 0 THEN NoneV ELSE metrics[DictGet(metrics, key)]

\* MetricsRegistry.get_all_metrics: self._metrics.copy()
get_all_metrics == metrics

\* register_all_metrics(): the eight registrations, in source order
RegisteredCatalog ==
    << MetricConfig("dormant_account_rate", "Dormant Account Rate", "Customer Success",
                    "percentage", "dormant_summary_sql", Str("dormant_details_sql"), TRUE),
       MetricConfig("t24h_activation_rate", "24h Activation Rate", "Customer Success",
                    "percentage", "t24h_summary_sql", Str("t24h_details_sql"), TRUE),
       MetricConfig("involuntary_churn_rate", "Involuntary Churn Rate", "Finance",
                    "percentage", "churn_summary_sql", Str("churn_details_sql"), FALSE),
       MetricConfig("dunning_recovery_rate", "Dunning Recovery Rate", "Finance",
                    "percentage", "dunning_summary_sql", Str("dunning_details_sql"), FALSE),
       MetricConfig("facebook_cac_to_ltv_ratio", "Facebook CAC to LTV Ratio", "Marketing",
                    "ratio", "facebook_cac_to_ltv_summary_sql",
                    Str("facebook_cac_to_ltv_details_sql"), FALSE),
       MetricConfig("facebook_lead_ads_total", "Facebook Lead Ads Total", "Marketing",
                    "count", "facebook_lead_ads_summary_sql",
                    Str("facebook_lead_ads_details_sql"), FALSE),
       MetricConfig("platform_breakdown", "Platform Breakdown", "Product & IT",
                    "list", "platform_summary_sql", Str("platform_details_sql"), FALSE),
       MetricConfig("root_cause_pareto", "Root Cause Pareto", "Finance",
                    "pareto", "pareto_summary_sql", Str("pareto_details_sql"), FALSE) >>

(***************************************************************************)
(* queries/*.py: the output columns of each summary query, in SELECT       *)
(* order, as the query text spells them; "text" marks a non-numeric column  *)
(***************************************************************************)
Col(name, type) == [name |-> name, type |-> type]

SummaryColumns(func) ==
    CASE func = "dormant_summary_sql" ->
            << Col("total_users", "number"), Col("dormant_users", "number"),
               Col("dormant_rate", "number") >>
      [] func = "t24h_summary_sql" ->
            << Col("total_users", "number"), Col("activated_users", "number"),
               Col("activation_rate", "number") >>
      [] func = "churn_summary_sql" ->
            << Col("total_cancels", "number"), Col("canceled_subscriptions", "number"),
               Col("churn_rate", "number") >>
      [] func = "dunning_summary_sql" ->
            << Col("recovered", "number"), Col("failed", "number"),
               Col("dunning_recovery_rate", "number") >>
      [] func = "facebook_cac_to_ltv_summary_sql" ->
            << Col("total_spend", "number"), Col("conversions", "number"),
               Col("avg_revenue", "number"), Col("cac", "number"),
               Col("ltv", "number"), Col("cac_to_ltv_ratio", "number") >>
      [] func = "facebook_lead_ads_summary_sql" ->
            << Col("total_leads", "number") >>
      [] func = "platform_summary_sql" ->
            << Col("platform", "text"), Col("event_count", "number"),
               Col("unique_users", "number") >>
      [] func = "pareto_summary_sql" ->
            << Col("reason", "text"), Col("count", "number") >>

\* The warehouse folds unquoted identifiers to upper case.
UpperName ==
    [total_users |-> "TOTAL_USERS", dormant_users |-> "DORMANT_USERS",
     dormant_rate |-> "DORMANT_RATE", activated_users |-> "ACTIVATED_USERS",
     activation_rate |-> "ACTIVATION_RATE", total_cancels |-> "TOTAL_CANCELS",
     canceled_subscriptions |-> "CANCELED_SUBSCRIPTIONS", churn_rate |-> "CHURN_RATE",
     recovered |-> "RECOVERED", failed |-> "FAILED",
     dunning_recovery_rate |-> "DUNNING_RECOVERY_RATE", total_spend |-> "TOTAL_SPEND",
     conversions |-> "CONVERSIONS", avg_revenue |-> "AVG_REVENUE", cac |-> "CAC",
     ltv |-> "LTV", cac_to_ltv_ratio |-> "CAC_TO_LTV_RATIO",
     total_leads |-> "TOTAL_LEADS", platform |-> "PLATFORM",
     event_count |-> "EVENT_COUNT", unique_users |-> "UNIQUE_USERS",
     reason |-> "REASON", count |-> "COUNT"]

Casings == {"lower", "upper"}

ColumnLabel(name, casing) == IF casing = "upper" THEN UpperName[name] ELSE name

(***************************************************************************)
(* The warehouse: what pd.read_sql can give back for a summary query       *)
(***************************************************************************)
Profiles == {"typical", "null", "nan"}

\* One cell of the result: column number i of row r
CellOf(col, i, r, profile) ==
    IF col.type = "text" THEN Str("label")
    ELSE IF col.type = "timestamp"
    THEN CASE profile = "typical" -> [kind |-> "timestamp", v |-> r]
           [] profile = "null" -> NoneV
           [] profile = "nan" -> [kind |-> "NaT"]
    ELSE CASE profile = "typical" -> Num(i + r, i % 2)
           [] profile = "null" -> NoneV
           [] profile = "nan" -> NaN

RowOf(cols, casing, r, profile) ==
    LET labels == {ColumnLabel(cols[i].name, casing) : i \in 1..Len(cols)}
        pos(l) == CHOOSE i \in 1..Len(cols) : ColumnLabel(cols[i].name, casing) = l
    IN [l \in labels |-> CellOf(cols[pos(l)], pos(l), r, profile)]

\* A DataFrame is the sequence of its rows; a row maps column labels to cells.
DataFrame(func, casing, profile, nrows) ==
    [r \in 1..nrows |-> RowOf(SummaryColumns(func), casing, r, profile)]

EmptyFrame == << >>

QueryFailure == [kind |-> "fail", cause |-> "warehouse_error"]
Frame(df) == [kind |-> "frame", df |-> df]

\* Every reaction of the warehouse to one summary query
SummaryReactions(func) ==
    {QueryFailure, Frame(EmptyFrame)} \cup
    {Frame(DataFrame(func, c, "typical", n)) : c \in Casings, n \in {1, MaxRows}} \cup
    {Frame(DataFrame(func, "lower", p, 1)) : p \in Profiles}


(***************************************************************************)
(* snowflake_service.py                                                    *)
(***************************************************************************)
Time(t) == [kind |-> "float", v |-> t]
Session(id) == [kind |-> "session", id |-> id, open |-> TRUE]

\* The fields of one SnowflakeService object (sessions counts the sessions
\* the warehouse has opened for it).
Snowflake(c, l, n) == [conn |-> c, last_connection_time |-> l, sessions |-> n]

\* SnowflakeService._create_connection: a new session, or every failure
\* re-raised as SnowflakeConnectionError
_create_connection(connect_ok, id) ==
    IF connect_ok
    THEN Ok(Session(id))
    ELSE Raise("SnowflakeConnectionError", [text |-> "Failed to connect to Snowflake"])

\* Variant of NeedsConnection: the age of the session is not looked at
NeedsConnection_NoTimeout(sf, current_time) ==
    \/ sf.conn = NoneV
    \/ sf.last_connection_time = NoneV

\* Variant of NeedsConnection: every call asks for a new session
NeedsConnection_Always(sf, current_time) == TRUE

\* The staleness test of get_connection
NeedsConnection(sf, current_time) ==
    \/ sf.conn = NoneV
    \/ sf.last_connection_time = NoneV
    \/ current_time - sf.last_connection_time.v > connection_timeout

\* SnowflakeService.get_connection.  Returns the service after the call, the
\* outcome, the handle close() was invoked on and what became of the connect.
get_connection(sf, current_time, connect_ok) ==
    IF NeedsConnection(sf, current_time)
    THEN LET closed == sf.conn
             afterClose == IF sf.conn # NoneV
                           THEN [sf EXCEPT !.conn.open = FALSE]
                           ELSE sf
             created == _create_connection(connect_ok, sf.sessions + 1)
         IN IF created.raised
            THEN [sf |-> afterClose, out |-> created, closed |-> closed,
                  connect |-> "fail"]
            ELSE [sf |-> Snowflake(created.val, Time(current_time), sf.sessions + 1),
                  out |-> Ok(created.val), closed |-> closed, connect |-> "ok"]
    ELSE [sf |-> sf, out |-> Ok(sf.conn), closed |-> NoneV, connect |-> "none"]

\* Variant of execute_query that runs a failed query a second time
execute_query_Retry(sf, current_time, query, connect_ok, reaction) ==
    LET g == get_connection(sf, current_time, connect_ok)
    IN IF g.out.raised
       THEN [sf |-> g.sf, out |-> g.out, connect |-> g.connect, queries |-> 0]
       ELSE IF reaction.kind = "fail"
            THEN [sf |-> g.sf,
                  out |-> Raise("Exception", [text |-> "Query execution failed",
                                               cause |-> reaction.cause]),
                  connect |-> g.connect, queries |-> 2]
            ELSE [sf |-> g.sf, out |-> Ok(reaction.df),
                  connect |-> g.connect, queries |-> 1]

\* SnowflakeService.execute_query: get_connection() outside the try, then
\* pd.read_sql with every failure re-raised as a plain Exception
execute_query(sf, current_time, query, connect_ok, reaction) ==
    LET g == get_connection(sf, current_time, connect_ok)
    IN IF g.out.raised
       THEN [sf |-> g.sf, out |-> g.out, connect |-> g.connect, queries |-> 0]
       ELSE IF reaction.kind = "fail"
            THEN [sf |-> g.sf,
                  out |-> Raise("Exception", [text |-> "Query execution failed",
                                               cause |-> reaction.cause]),
                  connect |-> g.connect, queries |-> 1]
            ELSE [sf |-> g.sf, out |-> Ok(reaction.df),
                  connect |-> g.connect, queries |-> 1]

\* SnowflakeService.clean_dataframe_for_json: NaN, NaT and None cells become
\* None, a timestamp becomes its isoformat() string
CleanCell(cell) ==
    IF cell.kind \in {"nan", "NaT", "None"} THEN NoneV
    ELSE IF cell.kind = "timestamp" THEN [kind |-> "str", s |-> "isoformat", of |-> cell.v]
    ELSE cell

clean_dataframe_for_json(df) ==
    [r \in 1..Len(df) |-> [l \in DOMAIN df[r] |-> CleanCell(df[r][l])]]

(***************************************************************************)
(* metrics_service.py                                                      *)
(***************************************************************************)
\* Variant of MetricResponse: every response is marked as served from the cache
MetricResponse_Cached(value, numerator, denominator, status, message, data, execution_time) ==
    [value |-> value, numerator |-> numerator, denominator |-> denominator,
     status |-> status, message |-> message, data |-> data,
     cached |-> TRUE, execution_time |-> execution_time]

\* The dataclass MetricResponse; cached keeps its default False, which no
\* caller overrides
MetricResponse(value, numerator, denominator, status, message, data, execution_time) ==
    [value |-> value, numerator |-> numerator, denominator |-> denominator,
     status |-> status, message |-> message, data |-> data,
     cached |-> FALSE, execution_time |-> execution_time]

\* value_columns of _extract_value
value_columns(metric_type) ==
    CASE metric_type = "percentage" ->
            <<"rate", "percentage", "ratio", "dormant_rate", "activation_rate">>
      [] metric_type = "ratio" -> <<"ratio", "cac_to_ltv_ratio", "value">>
      [] metric_type = "count" -> <<"total", "count", "total_leads", "total_users">>
      [] metric_type = "currency" -> <<"amount", "revenue", "spend", "value">>
      [] metric_type = "list" -> <<"event_count", "count">>
      [] metric_type = "pareto" -> <<"count">>
      [] OTHER -> <<"value", "total", "count">>

numerator_columns == <<"numerator", "dormant_users", "conversions", "total_leads">>
denominator_columns == <<"denominator", "total_users", "total_cancels">>

\* "for col in columns: if col in row and row[col] is not None": the
\* position of the first candidate that passes, 0 when none does
RECURSIVE FirstPresent(_, _, _)
FirstPresent(row, columns, i) ==
    IF i > Len(columns) THEN 0
    ELSE IF columns[i] \in DOMAIN row /\ row[columns[i]] # NoneV THEN i
    ELSE FirstPresent(row, columns, i + 1)

\* MetricsService._extract_value
_extract_value(row, metric_type) ==
    LET columns == value_columns(metric_type)
        i == FirstPresent(row, columns, 1)
    IN IF i = 0 THEN Ok(NoneV) ELSE PyFloat(row[columns[i]])

\* MetricsService._extract_numerator
_extract_numerator(row) ==
    LET i == FirstPresent(row, numerator_columns, 1)
    IN IF i = 0 THEN Ok(0) ELSE PyInt(row[numerator_columns[i]])

\* MetricsService._extract_denominator
_extract_denominator(row) ==
    LET i == FirstPresent(row, denominator_columns, 1)
    IN IF i = 0 THEN Ok(0) ELSE PyInt(row[denominator_columns[i]])

\* MetricsService._generate_message
_generate_message(config, value, numerator, denominator) ==
    IF value = NoneV
    THEN [text |-> "No data available for", title |-> config.title]
    ELSE CASE config.metric_type = "percentage" ->
                IF denominator > 0
                THEN [text |-> "out of users", numerator |-> numerator,
                      denominator |-> denominator, value |-> value]
                ELSE [text |-> "rate", value |-> value]
           [] config.metric_type = "count" -> [text |-> "total", value |-> value]
           [] config.metric_type = "ratio" -> [text |-> "ratio", value |-> value]
           [] OTHER -> [text |-> "description", of |-> config.key]

\* Variant of EmptyResult: an empty result is reported as status "missing"
EmptyResult_Missing(config) ==
    MetricResponse(NoneV, 0, 0, "missing",
                   [text |-> "No data available for", title |-> config.title],
                   ListV(<< >>), NoneV)

\* Variant of EmptyResult: data is left at its default None
EmptyResult_NullData(config) ==
    MetricResponse(NoneV, 0, 0, "ok",
                   [text |-> "No data available for", title |-> config.title],
                   NoneV, NoneV)

\* MetricsService._process_metric_results for an empty DataFrame
EmptyResult(config) ==
    MetricResponse(NoneV, 0, 0, "ok",
                   [text |-> "No data available for", title |-> config.title],
                   ListV(<< >>), NoneV)

\* MetricsService._process_metric_results
_process_metric_results(df, config) ==
    IF Len(df) = 0
    THEN Ok(EmptyResult(config))
    ELSE LET row == df[1]
             value == _extract_value(row, config.metric_type)
             numerator == _extract_numerator(row)
             denominator == _extract_denominator(row)
         IN IF value.raised THEN value
            ELSE IF numerator.raised THEN numerator
            ELSE IF denominator.raised THEN denominator
            ELSE Ok(MetricResponse(
                        value.val, numerator.val, denominator.val, "ok",
                        _generate_message(config, value.val, numerator.val,
                                          denominator.val),
                        IF config.metric_type \in {"list", "pareto"} /\ Len(df) > 1
                        THEN ListV(clean_dataframe_for_json(df))
                        ELSE NoneV,
                        NoneV))


\* The query text a summary builder returns for (start_dt, end_dt)
QueryText(func, start_dt, end_dt) == [func |-> func, start |-> start_dt, end |-> end_dt]

\* Variant of UnknownMetric: the message does not name the key
UnknownMetric_NoKey(metric_key) ==
    MetricResponse(NoneV, 0, 0, "error",
                   [text |-> "Unknown metric", key |-> ""], NoneV, NoneV)

\* calculate_metric, lookup miss: "Unknown metric: {metric_key}"
UnknownMetric(metric_key) ==
    MetricResponse(NoneV, 0, 0, "error",
                   [text |-> "Unknown metric", key |-> metric_key], NoneV, NoneV)

\* Variant of OnException: the except clause re-raises
OnException_Reraise(metric_key, exc, elapsed) ==
    [raised |-> TRUE, exc |-> exc]

\* Variant of OnException: the error response is built without execution_time
OnException_NoTime(metric_key, exc, elapsed) ==
    Ok(MetricResponse(NoneV, 0, 0, "error",
                      [text |-> "Error calculating", key |-> metric_key, error |-> exc.msg],
                      NoneV, NoneV))

\* calculate_metric, the except clause: the error response that carries the
\* exception message and the elapsed time
OnException(metric_key, exc, elapsed) ==
    Ok(MetricResponse(NoneV, 0, 0, "error",
                      [text |-> "Error calculating", key |-> metric_key, error |-> exc.msg],
                      NoneV, Time(elapsed)))

\* calculate_metric, the try block: build the query, run it, process the rows
TryCalculate(sf, current_time, metric_config, start_dt, end_dt, connect_ok, reaction) ==
    LET query == QueryText(metric_config.summary_query_func, start_dt, end_dt)
        q == execute_query(sf, current_time, query, connect_ok, reaction)
        processed == _process_metric_results(q.out.val, metric_config)
    IN IF q.out.raised
       THEN q
       ELSE IF processed.raised
            THEN [q EXCEPT !.out = processed]
            ELSE [q EXCEPT !.out =
                     Ok([processed.val EXCEPT !.execution_time =
                                                 Time(current_time - current_time)])]

\* MetricsService.calculate_metric.  The cache of __init__ is neither read
\* nor written here.
calculate_metric(sf, current_time, metric_key, start_dt, end_dt, connect_ok, reaction) ==
    LET metric_config == get_metric(metric_key)
        start_time == current_time
        t == TryCalculate(sf, current_time, metric_config, start_dt, end_dt,
                          connect_ok, reaction)
    IN IF metric_config = NoneV
       THEN [sf |-> sf, out |-> Ok(UnknownMetric(metric_key)), connect |-> "none",
             queries |-> 0, caught |-> NoneV]
       ELSE IF t.out.raised
            THEN [sf |-> t.sf,
                  out |-> OnException(metric_key, t.out.exc, current_time - start_time),
                  connect |-> t.connect, queries |-> t.queries, caught |-> t.out.exc]
            ELSE [sf |-> t.sf, out |-> t.out, connect |-> t.connect,
                  queries |-> t.queries, caught |-> NoneV]

\* calculate_all_metrics, the except clause around one key
OnFailure(key, exc) ==
    MetricResponse(NoneV, 0, 0, "error",
                   [text |-> "Failed to calculate", key |-> key, error |-> exc.msg],
                   NoneV, NoneV)

\* What the warehouse does to the summary query of one key during
\* calculate_all_metrics: the query fails or returns rows; the GROUP BY
\* queries of the list and pareto metrics can also return no row at all
\* (the other summary queries are aggregates, which return one row)
OutcomesFor(config) ==
    IF config.metric_type \in {"list", "pareto"}
    THEN {"fail", "empty", "rows"}
    ELSE {"fail", "rows"}

ReactionOf(config, outcome, casing) ==
    CASE outcome = "fail" -> QueryFailure
      [] outcome = "empty" -> Frame(EmptyFrame)
      [] outcome = "rows" ->
            Frame(DataFrame(config.summary_query_func, casing, "typical",
                            IF config.metric_type \in {"list", "pareto"}
                            THEN MaxRows ELSE 1))

\* Variant of LoopBody: a key whose computation ended in error is left out
LoopBody_SkipFailed(acc, config, current_time, start_dt, end_dt, connect_ok, reaction) ==
    LET c == calculate_metric(acc.sf, current_time, config.key, start_dt, end_dt,
                              connect_ok, reaction)
        failed == c.out.raised \/ c.out.val.status = "error"
    IN [sf |-> c.sf,
        metrics |-> IF failed THEN acc.metrics
                    ELSE acc.metrics @@ (config.key :> c.out.val),
        log |-> acc.log @@
                (config.key :> [connect |-> c.connect, queries |-> c.queries,
                                caught |-> c.caught, escaped |-> c.out.raised]),
        raised |-> FALSE]

\* Variant of LoopBody: no try/except around the key, and the failure of a
\* key's query leaves the loop
LoopBody_AbortOnError(acc, config, current_time, start_dt, end_dt, connect_ok, reaction) ==
    LET c == calculate_metric(acc.sf, current_time, config.key, start_dt, end_dt,
                              connect_ok, reaction)
        failed == c.out.raised \/ c.caught # NoneV
    IN [sf |-> c.sf,
        metrics |-> IF failed THEN acc.metrics
                    ELSE acc.metrics @@ (config.key :> c.out.val),
        log |-> acc.log @@
                (config.key :> [connect |-> c.connect, queries |-> c.queries,
                                caught |-> c.caught, escaped |-> failed]),
        raised |-> failed]

\* One iteration of the loop of calculate_all_metrics: metrics[key] = ...
\* inside try/except.  acc carries the service, the dict built so far and
\* the per-key record of what happened.
LoopBody(acc, config, current_time, start_dt, end_dt, connect_ok, reaction) ==
    LET c == calculate_metric(acc.sf, current_time, config.key, start_dt, end_dt,
                              connect_ok, reaction)
    IN [sf |-> c.sf,
        metrics |-> acc.metrics @@
                    (config.key :> (IF c.out.raised
                                    THEN OnFailure(config.key, c.out.exc)
                                    ELSE c.out.val)),
        log |-> acc.log @@
                (config.key :> [connect |-> c.connect, queries |-> c.queries,
                                caught |-> c.caught, escaped |-> c.out.raised]),
        raised |-> FALSE]

\* The for loop of calculate_all_metrics from position i on; the first
\* env.fails connection attempts fail
RECURSIVE AllLoop(_, _, _, _, _, _, _)
AllLoop(acc, all_configs, i, current_time, start_dt, end_dt, env) ==
    IF i > Len(all_configs) \/ acc.raised
    THEN acc
    ELSE AllLoop(LoopBody(acc, all_configs[i], current_time, start_dt, end_dt,
                          i > env.fails,
                          ReactionOf(all_configs[i], env.outcome[all_configs[i].key],
                                     env.casing)),
                 all_configs, i + 1, current_time, start_dt, end_dt, env)

EmptyDict == [k \in {} |-> NoneV]

\* MetricsService.calculate_all_metrics
calculate_all_metrics(sf, current_time, start_dt, end_dt, env) ==
    AllLoop([sf |-> sf, metrics |-> EmptyDict, log |-> EmptyDict, raised |-> FALSE],
            get_all_metrics, 1, current_time, start_dt, end_dt, env)


(***************************************************************************)
(* queries/*.py: the details queries                                       *)
(***************************************************************************)
\* The keyword parameters each details builder accepts after
\* (start_dt, end_dt)
DetailsSignature(func) ==
    CASE func = "dormant_details_sql" -> {"dormant_param"}
      [] func = "t24h_details_sql" -> {"activated_param"}
      [] OTHER -> {}

\* The output columns of each details query, in SELECT order
DetailsColumns(func) ==
    CASE func = "dormant_details_sql" ->
            << Col("user_id", "text"), Col("first_purchase_date", "timestamp"),
               Col("is_dormant", "number"), Col("status", "text") >>
      [] func = "t24h_details_sql" ->
            << Col("user_id", "text"), Col("first_event_date", "timestamp"),
               Col("is_activated", "number"), Col("activation_events", "number"),
               Col("status", "text") >>
      [] func = "churn_details_sql" ->
            << Col("customer_id", "text"), Col("canceled_at", "timestamp"),
               Col("email", "text") >>
      [] func = "dunning_details_sql" ->
            << Col("invoice_id", "text"), Col("CUSTOMER_ID", "text"),
               Col("paid_at", "timestamp"), Col("EMAIL", "text") >>
      [] func = "facebook_cac_to_ltv_details_sql" ->
            << Col("metric_type", "text"), Col("value", "number"), Col("unit", "text") >>
      [] func = "facebook_lead_ads_details_sql" ->
            << Col("user_id", "text"), Col("TIMESTAMP", "timestamp"),
               Col("campaign_name", "text"), Col("source", "text"),
               Col("email", "text"), Col("name", "text"), Col("phone", "text") >>
      [] func = "platform_details_sql" ->
            << Col("platform", "text"), Col("event_count", "number"),
               Col("unique_users", "number"), Col("date", "timestamp") >>
      [] func = "pareto_details_sql" ->
            << Col("reason", "text"), Col("count", "number"), Col("date", "timestamp") >>

\* details_query_func(start_dt, end_dt, **params): the query text, or the
\* TypeError Python raises for a keyword the builder does not take
DetailsQuery(func, start_dt, end_dt, params) ==
    IF DOMAIN params \subseteq DetailsSignature(func)
    THEN Ok([func |-> func, start |-> start_dt, end |-> end_dt, params |-> params])
    ELSE Raise("TypeError", [text |-> "got an unexpected keyword argument"])

\* The rows of a details result, labelled as the query text spells them
DetailsFrame(func, profile, nrows) ==
    [r \in 1..nrows |->
        LET cols == DetailsColumns(func)
            pos(l) == CHOOSE i \in 1..Len(cols) : cols[i].name = l
        IN [l \in {cols[i].name : i \in 1..Len(cols)} |->
               CellOf(cols[pos(l)], pos(l), r, profile)]]

\* Every reaction of the warehouse to one details query
DetailsReactions(func) ==
    {QueryFailure, Frame(EmptyFrame)} \cup
    {Frame(DetailsFrame(func, "typical", n)) : n \in {1, MaxRows}} \cup
    {Frame(DetailsFrame(func, "nan", 1))}

(***************************************************************************)
(* metrics_service.py: get_metric_details                                  *)
(***************************************************************************)
\* Variant of DetailsFailed: the except clause lets the exception through
DetailsFailed_Reraise(q, exc) ==
    [sf |-> q.sf, out |-> [raised |-> TRUE, exc |-> exc],
     connect |-> q.connect, queries |-> q.queries, caught |-> NoneV]

\* get_metric_details, the except clause: log and return []
DetailsFailed(q, exc) ==
    [sf |-> q.sf, out |-> Ok(ListV(<< >>)),
     connect |-> q.connect, queries |-> q.queries, caught |-> exc]

\* Variant of NoDetails: the lookup miss is reported as an error
NoDetails_Raise(sf) ==
    [sf |-> sf, out |-> Raise("KeyError", [text |-> "no details"]),
     connect |-> "none", queries |-> 0, caught |-> NoneV]

\* Variant of NoDetails: the early return drops the service's session
NoDetails_Reset(sf) ==
    [sf |-> Snowflake(NoneV, NoneV, sf.sessions), out |-> Ok(ListV(<< >>)),
     connect |-> "none", queries |-> 0, caught |-> NoneV]

\* get_metric_details, "if not metric_config or not
\* metric_config.details_query_func: return []"
NoDetails(sf) ==
    [sf |-> sf, out |-> Ok(ListV(<< >>)),
     connect |-> "none", queries |-> 0, caught |-> NoneV]

\* MetricsService.get_metric_details
get_metric_details(sf, current_time, metric_key, start_dt, end_dt, params, connect_ok, reaction) ==
    LET metric_config == get_metric(metric_key)
    IN IF metric_config = NoneV \/ metric_config.details_query_func = NoneV
       THEN NoDetails(sf)
       ELSE LET query == DetailsQuery(metric_config.details_query_func.s,
                                      start_dt, end_dt, params)
                unsent == [sf |-> sf, connect |-> "none", queries |-> 0]
                q == execute_query(sf, current_time, query.val, connect_ok, reaction)
            IN IF query.raised THEN DetailsFailed(unsent, query.exc)
               ELSE IF q.out.raised THEN DetailsFailed(q, q.out.exc)
               ELSE [sf |-> q.sf,
                     out |-> Ok(ListV(clean_dataframe_for_json(q.out.val))),
                     connect |-> q.connect, queries |-> q.queries, caught |-> NoneV]

(***************************************************************************)
(* app_clean.py: the details endpoint                                      *)
(***************************************************************************)
\* The view metric_details under @handle_errors: the JSON body and the HTTP
\* status it answers with
metric_details(sf, current_time, metric_name, start_dt, end_dt, params, connect_ok, reaction) ==
    LET d == get_metric_details(sf, current_time, metric_name, start_dt, end_dt,
                                params, connect_ok, reaction)
    IN [sf |-> d.sf,
        out |-> IF d.out.raised
                THEN [code |-> 500,
                      body |-> [error |-> "Failed to fetch details for",
                                key |-> metric_name, details |-> d.out.exc.msg]]
                ELSE [code |-> 200, body |-> [data |-> d.out.val, status |-> "ok"]],
        details |-> d.out,
        connect |-> d.connect, queries |-> d.queries, caught |-> d.caught]

(***************************************************************************)
(* metrics_registry.py: register_metric                                    *)
(***************************************************************************)
\* A registry that adds an entry on every call, whether or not the key exists
DictSet_Append(d, config) == Append(d, config)

\* self._metrics[config.key] = config: an existing key keeps its position
DictSet(d, config) ==
    IF config.key \in DictKeys(d)
    THEN [d EXCEPT ![DictGet(d, config.key)] = config]
    ELSE Append(d, config)

(***************************************************************************)
(* State machine                                                           *)
(***************************************************************************)
\* The (start_dt, end_dt) a request carries: a window of default_range_days
\* days, as dashboard_metrics builds it, beginning on one of MaxDate days
DateRanges == {<<d, d + default_range_days>> : d \in 1..MaxDate}

\* The keys a caller asks for: every registered key and one that is not
RequestKeys == DictKeys(RegisteredCatalog) \cup {"nonexistent_key"}

\* The SnowflakeService object owned by the MetricsService
SF == Snowflake(conn, last_connection_time, sessions)

\* The request threads of the Flask server, which share metrics_service
Threads == 1..MaxThreads

\* A thread that is not inside execute_query
Idle == [pc |-> "idle", current_time |-> NoneV, conn |-> NoneV]

\* State after import of metrics_registry (register_all_metrics has run) and
\* MetricsService() in app_clean.py: no connection, empty cache
Init ==
    /\ metrics = RegisteredCatalog
    /\ categories = {RegisteredCatalog[i].category : i \in 1..Len(RegisteredCatalog)}
    /\ conn = NoneV
    /\ last_connection_time = NoneV
    /\ cache = {}
    /\ now = 0
    /\ sessions = 0
    /\ request = NoneV
    /\ response = NoneV
    /\ events = NoneV
    /\ threads = [t \in Threads |-> Idle]

ReactionsFor(metric_key) ==
    IF get_metric(metric_key) = NoneV
    THEN {QueryFailure}
    ELSE SummaryReactions(get_metric(metric_key).summary_query_func)

\* A caller runs MetricsService.calculate_metric(metric_key, start_dt, end_dt)
CalculateMetric(metric_key, start_dt, end_dt, connect_ok, reaction) ==
    \E c \in {calculate_metric(SF, now, metric_key, start_dt, end_dt, connect_ok, reaction)} :
       /\ conn' = c.sf.conn
       /\ last_connection_time' = c.sf.last_connection_time
       /\ sessions' = c.sf.sessions
       /\ request' = [kind |-> "calculate_metric", key |-> metric_key,
                      start |-> start_dt, end |-> end_dt, at |-> now]
       /\ response' = c.out
       /\ events' = [connect |-> c.connect, queries |-> c.queries, caught |-> c.caught,
                     reaction |-> IF c.queries = 0 THEN "none" ELSE reaction.kind,
                     rows |-> IF c.queries = 0 \/ reaction.kind = "fail"
                              THEN 0 ELSE Len(reaction.df),
                     frame |-> IF c.queries = 0 THEN NoneV ELSE reaction]
       /\ UNCHANGED <<metrics, categories, cache, threads, now>>

\* dashboard_metrics of app_clean.py runs calculate_all_metrics(start_dt, end_dt)
CalculateAll(start_dt, end_dt, env) ==
    /\ request = NoneV
    /\ \E a \in {calculate_all_metrics(SF, now, start_dt, end_dt, env)} :
       /\ conn' = a.sf.conn
       /\ last_connection_time' = a.sf.last_connection_time
       /\ sessions' = a.sf.sessions
       /\ request' = [kind |-> "calculate_all_metrics",
                      start |-> start_dt, end |-> end_dt, at |-> now]
       /\ response' = [raised |-> a.raised, val |-> a.metrics]
       /\ events' = [log |-> a.log, casing |-> env.casing,
                     outcome |-> [k \in DOMAIN a.log |->
                                    IF a.log[k].queries = 0 THEN "none"
                                    ELSE env.outcome[k]]]
       /\ UNCHANGED <<metrics, categories, cache, threads, now>>

\* dashboard_metrics returns jsonify(response): the request is over
Respond ==
    /\ request # NoneV
    /\ request' = NoneV
    /\ response' = NoneV
    /\ events' = NoneV
    /\ UNCHANGED <<metrics, categories, conn, last_connection_time, cache, threads, now, sessions>>

\* Wall-clock time passes between requests (dashboard_metrics answers its
\* request before the clock is read again)
Tick ==
    /\ request.kind # "calculate_all_metrics"
    /\ now + TickSeconds <= MaxTicks * TickSeconds
    /\ now' = now + TickSeconds
    /\ UNCHANGED <<metrics, categories, conn, last_connection_time, cache, threads, sessions,
                   request, response, events>>

\* The environments of one calculate_all_metrics call: how many leading
\* connection attempts fail, the casing of the result columns and the
\* warehouse's answer to each query that is issued
AllEnvs ==
    LET n == Len(metrics)
        maxFails == IF NeedsConnection(SF, now) THEN n ELSE 0
        issued(f) == {metrics[i].key : i \in (f + 1)..n}
        grouped(f) == {k \in issued(f) : "empty" \in OutcomesFor(get_metric(k))}
        answers(f) == {a @@ g : a \in [issued(f) \ grouped(f) -> {"fail", "rows"}],
                                g \in [grouped(f) -> {"fail", "empty", "rows"}]}
    IN UNION {[fails : {f}, casing : Casings, outcome : answers(f)] : f \in 0..maxFails}

\* Whether a connection attempt of this call succeeds; no attempt is made
\* while the session is live
ConnectOutcomes == IF NeedsConnection(SF, now) THEN BOOLEAN ELSE {TRUE}

\* What the environment can do to one calculate_metric call, as far as the
\* call gets to see it: nothing when the key is unknown, otherwise a failed
\* connection attempt (when one is made) or a session and one of the
\* warehouse's reactions to the query
MetricEnvs(metric_key) ==
    IF get_metric(metric_key) = NoneV
    THEN {[ok |-> TRUE, reaction |-> QueryFailure]}
    ELSE {[ok |-> FALSE, reaction |-> QueryFailure] :
             x \in IF NeedsConnection(SF, now) THEN {1} ELSE {}} \cup
         {[ok |-> TRUE, reaction |-> r] : r \in ReactionsFor(metric_key)}

Next ==
    \/ \E k \in RequestKeys, d \in DateRanges :
         \E env \in MetricEnvs(k) : CalculateMetric(k, d[1], d[2], env.ok, env.reaction)
    \/ Tick

Spec == Init /\ [][Next]_vars

NextAll ==
    \/ /\ request = NoneV
       /\ \E d \in DateRanges : \E env \in AllEnvs : CalculateAll(d[1], d[2], env)
    \/ Respond
    \/ Tick

SpecAll == Init /\ [][NextAll]_vars


(***************************************************************************)
(* State machine of the details endpoint and the registry                  *)
(***************************************************************************)
\* The query-string arguments of a details request other than start and end
EmptyParams == [k \in {} |-> ""]

\* register_all_metrics: the param_options a metric is registered with,
\* by the names of the parameters it announces
param_options(metric_key) ==
    CASE metric_key = "dormant_account_rate" -> {"dormant"}
      [] metric_key = "t24h_activation_rate" -> {"activated"}
      [] OTHER -> {}

ParamSets ==
    {EmptyParams, "dormant" :> "true", "dormant_param" :> "true",
     "activated" :> "false", "activated_param" :> "false"}

\* A metric an extension registers without a details builder
\* (details_query_func keeps its default None)
ExtraConfigs ==
    {MetricConfig("custom_metric", "Custom Metric", "Operations", "count",
                  "facebook_lead_ads_summary_sql", NoneV, FALSE)}

DetailKeys == RequestKeys \cup {c.key : c \in ExtraConfigs}

\* What the environment can do to one details request, as far as the
\* request gets to see it: nothing when no query is built, otherwise a
\* failed connection attempt (when one is made) or a session and one of
\* the warehouse's reactions to the query
DetailsEnvs(metric_key, start_dt, end_dt, params) ==
    LET metric_config == get_metric(metric_key)
    IN IF \/ metric_config = NoneV
          \/ metric_config.details_query_func = NoneV
          \/ DetailsQuery(metric_config.details_query_func.s, start_dt, end_dt,
                          params).raised
       THEN {[ok |-> TRUE, reaction |-> QueryFailure]}
       ELSE {[ok |-> FALSE, reaction |-> QueryFailure] :
                x \in IF NeedsConnection(SF, now) THEN {1} ELSE {}} \cup
            {[ok |-> TRUE, reaction |-> r] :
                r \in DetailsReactions(metric_config.details_query_func.s)}

\* MetricsRegistry.register_metric(config)
RegisterMetric(config) ==
    /\ metrics' = DictSet(metrics, config)
    /\ categories' = categories \cup {config.category}
    /\ request' = [kind |-> "register_metric", config |-> config]
    /\ response' = NoneV
    /\ events' = NoneV
    /\ UNCHANGED <<conn, last_connection_time, cache, threads, now, sessions>>

\* GET /api/metric_details/<metric_name>
MetricDetails(metric_name, start_dt, end_dt, params, connect_ok, reaction) ==
    \E d \in {metric_details(SF, now, metric_name, start_dt, end_dt, params,
                             connect_ok, reaction)} :
       /\ conn' = d.sf.conn
       /\ last_connection_time' = d.sf.last_connection_time
       /\ sessions' = d.sf.sessions
       /\ request' = [kind |-> "metric_details", key |-> metric_name,
                      start |-> start_dt, end |-> end_dt, params |-> params,
                      at |-> now]
       /\ response' = d.out
       /\ events' = [connect |-> d.connect, queries |-> d.queries, caught |-> d.caught,
                     details |-> d.details,
                     reaction |-> IF d.queries = 0 THEN "none" ELSE reaction.kind,
                     rows |-> IF d.queries = 0 \/ reaction.kind = "fail"
                              THEN 0 ELSE Len(reaction.df),
                     frame |-> IF d.queries = 0 THEN NoneV ELSE reaction]
       /\ UNCHANGED <<metrics, categories, cache, threads, now>>

\* The dates metric_details falls back to when the request names none: the
\* default_range_days days up to the day of the request
DefaultRange == <<1, 1 + default_range_days>>

NextDetails ==
    \/ \E k \in DetailKeys, d \in {DefaultRange}, p \in ParamSets :
         \E env \in DetailsEnvs(k, d[1], d[2], p) :
            MetricDetails(k, d[1], d[2], p, env.ok, env.reaction)
    \/ \E c \in ExtraConfigs : RegisterMetric(c)
    \/ Tick

SpecDetails == Init /\ [][NextDetails]_vars


(***************************************************************************)
(* State machine of the connection manager                                 *)
(***************************************************************************)
\* A caller runs SnowflakeService.get_connection()
GetConnection(connect_ok) ==
    \E g \in {get_connection(SF, now, connect_ok)} :
       /\ conn' = g.sf.conn
       /\ last_connection_time' = g.sf.last_connection_time
       /\ sessions' = g.sf.sessions
       /\ request' = [kind |-> "get_connection", at |-> now]
       /\ response' = g.out
       /\ events' = [connect |-> g.connect, closed |-> g.closed, queries |-> 0,
                     used |-> NoneV]
       /\ UNCHANGED <<metrics, categories, cache, threads, now>>

\* A caller runs SnowflakeService.execute_query(query)
ExecuteQuery(query, connect_ok, reaction) ==
    \E q \in {execute_query(SF, now, query, connect_ok, reaction)} :
       /\ conn' = q.sf.conn
       /\ last_connection_time' = q.sf.last_connection_time
       /\ sessions' = q.sf.sessions
       /\ request' = [kind |-> "execute_query", at |-> now, query |-> query]
       /\ response' = IF q.out.raised THEN q.out ELSE Ok(ListV(q.out.val))
       /\ events' = [connect |-> q.connect,
                     closed |-> get_connection(SF, now, connect_ok).closed,
                     queries |-> q.queries,
                     used |-> IF q.queries = 1 THEN q.sf.conn ELSE NoneV,
                     reaction |-> reaction]
       /\ UNCHANGED <<metrics, categories, cache, threads, now>>

\* time.time() moves on between two calls, by half a tick or by a whole one
Elapse(seconds) ==
    /\ now + seconds <= MaxTicks * TickSeconds
    /\ now' = now + seconds
    /\ UNCHANGED <<metrics, categories, conn, last_connection_time, cache, threads, sessions,
                   request, response, events>>

NextConn ==
    \/ \E ok \in ConnectOutcomes : GetConnection(ok)
    \/ \E ok \in ConnectOutcomes,
          r \in {QueryFailure, Frame(EmptyFrame),
                 Frame(DataFrame("facebook_lead_ads_summary_sql", "lower", "typical", 1))} :
         ExecuteQuery(QueryText("facebook_lead_ads_summary_sql", 1, 1 + default_range_days),
                      ok, r)
    \/ \E seconds \in {TickSeconds \div 2, TickSeconds} : Elapse(seconds)

SpecConn == Init /\ [][NextConn]_vars


(***************************************************************************)
(* State machine of concurrent requests: execute_query, statement by      *)
(* statement, run by the threads of app.run() on the one metrics_service   *)
(***************************************************************************)
ThreadStep(t, local) ==
    threads' = [threads EXCEPT ![t] = local]

\* execute_query calls get_connection: current_time = time.time()
T_Begin(t) ==
    /\ threads[t].pc = "idle"
    /\ ThreadStep(t, [pc |-> "check", current_time |-> Time(now), conn |-> NoneV])
    /\ UNCHANGED <<metrics, categories, conn, last_connection_time, cache, now,
                   sessions, request, response, events>>

\* if (self.conn is None or self.last_connection_time is None or
\*     current_time - self.last_connection_time > self.connection_timeout)
T_Check(t) ==
    /\ threads[t].pc = "check"
    /\ ThreadStep(t, [threads[t] EXCEPT !.pc =
                         IF NeedsConnection(SF, threads[t].current_time.v)
                         THEN "close" ELSE "return"])
    /\ UNCHANGED <<metrics, categories, conn, last_connection_time, cache, now,
                   sessions, request, response, events>>

\* if self.conn: self.conn.close()
T_Close(t) ==
    /\ threads[t].pc = "close"
    /\ conn' = IF conn # NoneV THEN [conn EXCEPT !.open = FALSE] ELSE conn
    /\ ThreadStep(t, [threads[t] EXCEPT !.pc = "create"])
    /\ UNCHANGED <<metrics, categories, last_connection_time, cache, now,
                   sessions, request, response, events>>

\* self.conn = self._create_connection()
T_Create(t, connect_ok) ==
    /\ threads[t].pc = "create"
    /\ \E created \in {_create_connection(connect_ok, sessions + 1)} :
          IF created.raised
          THEN /\ ThreadStep(t, Idle)
               /\ UNCHANGED <<conn, sessions>>
          ELSE /\ conn' = created.val
               /\ sessions' = sessions + 1
               /\ ThreadStep(t, [threads[t] EXCEPT !.pc = "stamp"])
    /\ UNCHANGED <<metrics, categories, last_connection_time, cache, now,
                   request, response, events>>

\* self.last_connection_time = current_time
T_Stamp(t) ==
    /\ threads[t].pc = "stamp"
    /\ last_connection_time' = threads[t].current_time
    /\ ThreadStep(t, [threads[t] EXCEPT !.pc = "return"])
    /\ UNCHANGED <<metrics, categories, conn, cache, now,
                   sessions, request, response, events>>

\* return self.conn, received by execute_query as conn
T_Return(t) ==
    /\ threads[t].pc = "return"
    /\ ThreadStep(t, [threads[t] EXCEPT !.pc = "query", !.conn = conn])
    /\ UNCHANGED <<metrics, categories, conn, last_connection_time, cache, now,
                   sessions, request, response, events>>

\* pd.read_sql(query, conn) sends the query on conn
T_Query(t) ==
    /\ threads[t].pc = "query"
    /\ ThreadStep(t, [threads[t] EXCEPT !.pc = "running"])
    /\ UNCHANGED <<metrics, categories, conn, last_connection_time, cache, now,
                   sessions, request, response, events>>

\* pd.read_sql returns the DataFrame or raises; execute_query is left
T_Done(t) ==
    /\ threads[t].pc = "running"
    /\ ThreadStep(t, Idle)
    /\ UNCHANGED <<metrics, categories, conn, last_connection_time, cache, now,
                   sessions, request, response, events>>

NextThreads ==
    \/ \E t \in Threads : T_Begin(t)
    \/ \E t \in Threads : T_Check(t)
    \/ \E t \in Threads : T_Close(t)
    \/ \E t \in Threads, ok \in BOOLEAN : T_Create(t, ok)
    \/ \E t \in Threads : T_Stamp(t)
    \/ \E t \in Threads : T_Return(t)
    \/ \E t \in Threads : T_Query(t)
    \/ \E t \in Threads : T_Done(t)
    \/ Tick

SpecThreads == Init /\ [][NextThreads]_vars


(***************************************************************************)
(* Properties                                                              *)
(***************************************************************************)
MetricReturned == request.kind = "calculate_metric"
AllReturned == request.kind = "calculate_all_metrics"
Registered(key) == key \in DictKeys(metrics)
ScalarTypes == {"percentage", "ratio", "count", "currency"}
Statuses == {"ok", "partial", "missing", "error"}

\* The call got rows back from the warehouse, and how many
GotRows(n) == events.reaction = "frame" /\ events.rows = n

\* C1: calculate_all_metrics returns a dict whose key set is exactly the set
\* of registered keys, whatever the warehouse did to each query (every
\* query failing included).
C1_AllKeysReturned ==
    AllReturned =>
        /\ ~response.raised
        /\ DOMAIN response.val = DictKeys(metrics)
        /\ Cardinality(DOMAIN response.val) = Len(metrics)

C1_Witness ==
    /\ AllReturned
    /\ \A k \in DictKeys(metrics) : events.outcome[k] = "fail"
    /\ Cardinality(DOMAIN response.val) = Len(RegisteredCatalog)

\* What calculate_metric gives for this key and this answer of the warehouse
\* when the session is live and nothing else has gone wrong
Undisturbed(config, outcome) ==
    calculate_metric(Snowflake(Session(1), Time(request.at), 1), request.at,
                     config.key, request.start, request.end, TRUE,
                     ReactionOf(config, outcome, events.casing)).out.val

\* C2: in calculate_all_metrics a failure on one key becomes that key's
\* status=error entry and stops nothing: every registered key is computed,
\* and a key whose own query succeeds gets the result it would get had no
\* other key failed.
C2_FailureIsolated ==
    AllReturned =>
        /\ ~response.raised
        /\ \A i \in 1..Len(metrics) :
             LET k == metrics[i].key
             IN /\ k \in DOMAIN response.val
                /\ k \in DOMAIN events.log
                /\ (events.log[k].caught # NoneV => response.val[k].status = "error")
                /\ (events.outcome[k] \in {"empty", "rows"} =>
                        response.val[k] = Undisturbed(metrics[i], events.outcome[k]))

C2_Witness ==
    /\ AllReturned
    /\ events.outcome["dormant_account_rate"] = "fail"
    /\ response.val["dormant_account_rate"].status = "error"
    /\ events.outcome["platform_breakdown"] = "empty"
    /\ response.val["platform_breakdown"].status = "ok"
    /\ events.outcome["root_cause_pareto"] = "rows"
    /\ response.val["root_cause_pareto"].status = "ok"
    /\ response.val["root_cause_pareto"].value # NoneV

\* C3: for a registered key calculate_metric always returns a MetricResponse
\* whose status is one of ok, partial, missing, error; no exception leaves it.
C3_StatusDrawnFromEnum ==
    (MetricReturned /\ Registered(request.key)) =>
        /\ ~response.raised
        /\ response.val.status \in Statuses

C3_Witness ==
    /\ MetricReturned
    /\ Registered(request.key)
    /\ GotRows(1)
    /\ events.caught # NoneV
    /\ events.caught.type = "ValueError"
    /\ response.val.status = "error"

\* C4: when the summary query fails, calculate_metric returns status=error
\* with the exception message and a measured execution_time; the failure
\* does not leave calculate_metric.
C4_QueryErrorLocal ==
    (MetricReturned /\ events.reaction = "fail") =>
        /\ ~response.raised
        /\ response.val.status = "error"
        /\ events.caught.msg.text = "Query execution failed"
        /\ response.val.message.error = events.caught.msg
        /\ response.val.execution_time # NoneV

C4_Witness ==
    /\ MetricReturned
    /\ events.reaction = "fail"
    /\ events.queries = 1
    /\ response.val.status = "error"
    /\ response.val.execution_time = Time(0)

\* C5: a failure to establish or refresh the warehouse session during
\* calculate_metric propagates to the caller as SnowflakeConnectionError and
\* is not converted into a per-metric error result.
C5_ConnectionErrorPropagates ==
    (MetricReturned /\ events.connect = "fail") =>
        /\ response.raised
        /\ response.exc.type = "SnowflakeConnectionError"

\* C6: calculate_metric with a key that is not registered returns
\* status=error with a message naming that key, and does not raise.
C6_UnknownKeyIsError ==
    (MetricReturned /\ ~Registered(request.key)) =>
        /\ ~response.raised
        /\ response.val.status = "error"
        /\ response.val.message.text = "Unknown metric"
        /\ response.val.message.key = request.key

C6_Witness ==
    /\ MetricReturned
    /\ request.key = "nonexistent_key"
    /\ response.val.status = "error"
    /\ events.queries = 0

\* An error of the taxonomy happened in the call: the lookup missed
\* (UnknownMetricError) or calculate_metric caught an exception
ErrorOccurred == ~Registered(request.key) \/ events.caught # NoneV

\* C7: a MetricResponse returned by calculate_metric has status=error exactly
\* when an error occurred in that computation, and status=ok in every other
\* case, zero-row results included.
C7_ErrorIffException ==
    MetricReturned =>
        /\ ~response.raised
        /\ (response.val.status = "error" <=> ErrorOccurred)
        /\ (~ErrorOccurred => response.val.status = "ok")

C7_Witness ==
    /\ MetricReturned
    /\ GotRows(0)
    /\ events.caught = NoneV
    /\ response.val.status = "ok"

\* C8: when the summary query of a percentage, ratio, count or currency
\* metric returns zero rows, calculate_metric returns status=ok with value=0,
\* numerator=0 and denominator=0.
C8_ZeroRowsScalarIsZero ==
    (MetricReturned /\ Registered(request.key) /\ GotRows(0)
       /\ get_metric(request.key).metric_type \in ScalarTypes) =>
        /\ ~response.raised
        /\ response.val.status = "ok"
        /\ response.val.value = Num(0, 0)
        /\ response.val.numerator = 0
        /\ response.val.denominator = 0

\* C9: when the summary query of a list or pareto metric returns zero rows,
\* calculate_metric returns status=ok with value=None, data=[] (an empty
\* list, not None), numerator=0 and denominator=0.
C9_ZeroRowsListIsEmpty ==
    (MetricReturned /\ Registered(request.key) /\ GotRows(0)
       /\ get_metric(request.key).metric_type \in {"list", "pareto"}) =>
        /\ ~response.raised
        /\ response.val.status = "ok"
        /\ response.val.value = NoneV
        /\ response.val.data = ListV(<< >>)
        /\ response.val.numerator = 0
        /\ response.val.denominator = 0

C9_Witness ==
    /\ MetricReturned
    /\ request.key = "platform_breakdown"
    /\ GotRows(0)
    /\ response.val.data = ListV(<< >>)
    /\ response.val.value = NoneV

\* A step in which calculate_metric is called again for the key and dates of
\* the previous call, that call having succeeded less than the TTL ago
RepeatedWithinTTL ==
    /\ MetricReturned
    /\ Registered(request.key)
    /\ ~response.raised
    /\ response.val.status = "ok"
    /\ now' = now
    /\ now - request.at < cache_ttl
    /\ request'.kind = "calculate_metric"
    /\ request'.key = request.key
    /\ request'.start = request.start
    /\ request'.end = request.end

\* C10: two calculate_metric calls for the same key and dates within the TTL
\* return the same value, numerator and denominator; the first returns
\* cached=false and stores its result, the second is served from the cache
\* with cached=true and issues no query.
C10_SecondCallCached ==
    [][RepeatedWithinTTL =>
          /\ response.val.cached = FALSE
          /\ Cardinality(cache) > 0
          /\ response'.val.cached = TRUE
          /\ events'.queries = 0
          /\ response'.val.value = response.val.value
          /\ response'.val.numerator = response.val.numerator
          /\ response'.val.denominator = response.val.denominator]_vars

\* A step in which calculate_metric is called for the key and dates of the
\* previous call, that call having succeeded more than the TTL ago
RepeatedAfterTTL ==
    /\ MetricReturned
    /\ Registered(request.key)
    /\ ~response.raised
    /\ response.val.status = "ok"
    /\ now - request.at > cache_ttl
    /\ request'.kind = "calculate_metric"
    /\ request'.at = now
    /\ request'.key = request.key
    /\ request'.start = request.start
    /\ request'.end = request.end

\* What calculate_metric makes of one answer of the warehouse at the time of
\* the call, the session being live
FreshResult(req, reaction) ==
    calculate_metric(Snowflake(Session(1), Time(req.at), 1), req.at,
                     req.key, req.start, req.end, TRUE, reaction).out

IsNull(cell) == cell.kind \in {"None", "nan"}

\* The lower-case spelling of a column label
LowerLabel(l) ==
    IF \E n \in DOMAIN UpperName : UpperName[n] = l
    THEN CHOOSE n \in DOMAIN UpperName : UpperName[n] = l
    ELSE l

\* The same row with its column labels in lower case
LowerCased(row) ==
    [n \in {LowerLabel(l) : l \in DOMAIN row} |->
        row[CHOOSE l \in DOMAIN row : LowerLabel(l) = n]]

\* The call got at least one row back
GotSomeRows == MetricReturned /\ Registered(request.key) /\ events.reaction = "frame"
               /\ events.rows >= 1

\* C19: value, numerator and denominator are extracted from the first row by
\* case-insensitive matching of the candidate column names: the result for
\* the rows as the warehouse labelled them is the result for the same rows
\* with lower-case labels.
C19_UpperSameAsLower ==
    GotSomeRows =>
        LET df == events.frame.df
            lower == [r \in 1..Len(df) |-> LowerCased(df[r])]
            expected == _process_metric_results(lower, get_metric(request.key))
        IN IF expected.raised
           THEN response.val.status = "error"
           ELSE /\ response.val.value = expected.val.value
                /\ response.val.numerator = expected.val.numerator
                /\ response.val.denominator = expected.val.denominator

\* No value candidate of the metric type is a column of the row with a
\* non-null cell
NoValueCandidate(row, metric_type) ==
    \A i \in 1..Len(value_columns(metric_type)) :
        LET col == value_columns(metric_type)[i]
        IN col \notin DOMAIN row \/ IsNull(row[col])

\* C20: when the summary query returns at least one row and no value
\* candidate of the metric's type is present with a non-null cell,
\* calculate_metric returns value=None with status=ok, not status=error.
C20_NoCandidateIsNullOk ==
    (GotSomeRows /\ NoValueCandidate(events.frame.df[1],
                                     get_metric(request.key).metric_type)) =>
        /\ ~response.raised
        /\ response.val.status = "ok"
        /\ response.val.value = NoneV

DetailsReturned == request.kind = "metric_details"

\* The metric asked for has no details builder
NoBuilder(key) == Registered(key) /\ get_metric(key).details_query_func = NoneV

\* C12: get_metric_details for a key that is not registered, or for a
\* registered metric without a details builder, returns [] and raises
\* nothing; no query is built or sent.
C12_NoBuilderIsEmpty ==
    (DetailsReturned /\ (~Registered(request.key) \/ NoBuilder(request.key))) =>
        /\ events.details = Ok(ListV(<< >>))
        /\ events.caught = NoneV
        /\ events.queries = 0
        /\ response.code = 200

C12_Witness ==
    /\ DetailsReturned
    /\ request.key = "custom_metric"
    /\ NoBuilder(request.key)
    /\ events.details = Ok(ListV(<< >>))
    /\ response.body.data = ListV(<< >>)

\* C13: when the details query fails inside get_metric_details (the builder
\* rejects the parameters, no session can be had, or the warehouse fails the
\* query), the exception is caught, get_metric_details returns [] and the
\* endpoint answers 200 with status ok and empty data.
C13_DetailsFailureSwallowed ==
    DetailsReturned =>
        /\ (events.reaction = "fail" \/ events.connect = "fail") => events.caught # NoneV
        /\ events.caught # NoneV =>
              /\ events.details = Ok(ListV(<< >>))
              /\ response = [code |-> 200,
                             body |-> [data |-> ListV(<< >>), status |-> "ok"]]

C13_Witness ==
    /\ DetailsReturned
    /\ events.reaction = "fail"
    /\ events.queries = 1
    /\ events.caught.type = "Exception"
    /\ response.code = 200
    /\ response.body.data = ListV(<< >>)

\* A step that is a call of get_connection, directly or from execute_query
ConnectionCall == now' = now /\ request'.at = now
                  /\ request'.kind \in {"get_connection", "execute_query"}

\* The handle the call of this step returned to its caller or ran its
\* query on, NoneV when it did neither
HandedOut ==
    IF request'.kind = "get_connection"
    THEN IF response'.raised THEN NoneV ELSE response'.val
    ELSE events'.used

\* C14: a session older than connection_timeout is never returned by
\* get_connection nor used for a query.  Every handle handed out is the
\* service's current, open session; last_connection_time is the time that
\* session was created (set when it is created, untouched while it is
\* reused) and is at most connection_timeout ago; a handle that is replaced
\* has had close() called on it first.
C14_NoStaleHandle ==
    [][(ConnectionCall /\ HandedOut # NoneV) =>
          /\ HandedOut = conn'
          /\ conn'.open
          /\ last_connection_time' # NoneV
          /\ now - last_connection_time'.v <= connection_timeout
          /\ IF sessions' # sessions
             THEN /\ conn' = Session(sessions')
                  /\ last_connection_time' = Time(now)
                  /\ events'.closed = conn
             ELSE /\ conn' = conn
                  /\ last_connection_time' = last_connection_time]_vars

C14_Witness ==
    /\ request.kind = "get_connection"
    /\ ~response.raised
    /\ events.closed # NoneV
    /\ events.closed.id = 1
    /\ response.val = Session(2)
    /\ conn = Session(2)
    /\ last_connection_time = Time(now)
    /\ now > connection_timeout

\* The service holds an open session not older than connection_timeout
LiveSession ==
    /\ conn # NoneV
    /\ conn.open
    /\ last_connection_time # NoneV
    /\ now - last_connection_time.v <= connection_timeout

\* C15: a get_connection call made while the session is inside its timeout
\* window returns that same session, creates no session and closes nothing.
C15_SameHandleInWindow ==
    [][(ConnectionCall /\ request'.kind = "get_connection" /\ LiveSession) =>
          /\ response' = Ok(conn)
          /\ conn' = conn
          /\ last_connection_time' = last_connection_time
          /\ sessions' = sessions
          /\ events'.closed = NoneV
          /\ events'.connect = "none"]_vars

C15_Witness ==
    /\ request.kind = "get_connection"
    /\ events.connect = "none"
    /\ response = Ok(conn)
    /\ conn = Session(1)
    /\ sessions = 1
    /\ request.at = last_connection_time.v + connection_timeout

\* C16: every session that is replaced after going stale has close() called
\* on it exactly once, also when the creation of its replacement fails and
\* is tried again by a later call: close() is called on the stale handle, and
\* never on a handle it was already called on.
C16_ClosedExactlyOnce ==
    [][ConnectionCall =>
          /\ (conn # NoneV /\ events'.connect # "none") => events'.closed = conn
          /\ events'.closed # NoneV => events'.closed.open]_vars

\* C17: when _create_connection fails inside get_connection the caller gets
\* SnowflakeConnectionError and the service is left without a handle
\* (conn is None), whether it had none before or a stale one.
C17_FailureLeavesAbsent ==
    (request.kind = "get_connection" /\ response.raised) =>
        /\ response.exc.type = "SnowflakeConnectionError"
        /\ conn = NoneV

\* The thread has a query running on a session
Running(t) == threads[t].pc = "running"

\* C18: with requests served concurrently, at most one query is running on
\* any one session at any time (execution is serialized on the handle, or
\* spread over distinct handles).
C18_OneQueryPerHandle ==
    \A t1, t2 \in Threads :
        (t1 # t2 /\ Running(t1) /\ Running(t2)) =>
            threads[t1].conn.id # threads[t2].conn.id

\* C21: data is populated only for list and pareto metrics: it is None in
\* every result of a percentage, ratio, count or currency metric, and for a
\* list or pareto metric whose result has more than one row it is the
\* cleaned row set.
C21_DataOnlyForLists ==
    (MetricReturned /\ Registered(request.key) /\ ~response.raised) =>
        /\ get_metric(request.key).metric_type \in ScalarTypes =>
              response.val.data = NoneV
        /\ (get_metric(request.key).metric_type \in {"list", "pareto"}
              /\ events.reaction = "frame" /\ events.rows > 1
              /\ response.val.status = "ok") =>
              response.val.data = ListV(clean_dataframe_for_json(events.frame.df))

\* Every cell of the row holds a value and its labels are spelled in lower
\* case, as the query text spells them
AllCellsPresent(row) ==
    \A l \in DOMAIN row : ~IsNull(row[l]) /\ LowerLabel(l) = l

\* The summary query's output columns include a value candidate of the type,
\* whatever the casing
HasValueCandidate(config) ==
    \E i \in 1..Len(SummaryColumns(config.summary_query_func)),
       j \in 1..Len(value_columns(config.metric_type)) :
        LowerLabel(SummaryColumns(config.summary_query_func)[i].name) =
            LowerLabel(value_columns(config.metric_type)[j])

\* C29: for every registered metric the output columns of the summary query
\* include a value candidate of the metric's type, so a summary row whose
\* cells are all non-null yields a non-null value.
C29_CatalogHasValueColumn ==
    /\ \A i \in 1..Len(metrics) : HasValueCandidate(metrics[i])
    /\ (GotSomeRows /\ AllCellsPresent(events.frame.df[1])) =>
          /\ ~response.raised
          /\ response.val.status = "ok"
          /\ response.val.value # NoneV

(***************************************************************************)
(* The extraction helpers on their own: rows a summary query can hand to   *)
(* _extract_value and _extract_numerator, with every mix of absent, None,  *)
(* NaN and numeric cells, and both casings of one column side by side.     *)
(***************************************************************************)
MaxCell == 2

ExtractLabels == {"count", "COUNT", "total", "total_leads"}

ExtractCells == {NoneV, NaN} \cup {Num(v, 0) : v \in 1..MaxCell}

\* df.iloc[0]: a row over any subset of the labels
ExtractRows ==
    UNION {[labels -> ExtractCells] : labels \in SUBSET ExtractLabels}

\* The service object as constructed, and the row and metric type that
\* _process_metric_results is about to hand to the helpers
InitExtract ==
    /\ metrics = RegisteredCatalog
    /\ categories = {RegisteredCatalog[i].category : i \in 1..Len(RegisteredCatalog)}
    /\ conn = NoneV
    /\ last_connection_time = NoneV
    /\ cache = {}
    /\ now = 0
    /\ sessions = 0
    /\ request \in {[kind |-> "row", row |-> row, metric_type |-> metric_type] :
                       row \in ExtractRows, metric_type \in MetricType}
    /\ response = NoneV
    /\ events = NoneV
    /\ threads = [t \in Threads |-> Idle]

ExtractValue ==
    /\ request.kind = "row"
    /\ request' = [request EXCEPT !.kind = "_extract_value"]
    /\ response' = _extract_value(request.row, request.metric_type)
    /\ UNCHANGED <<metrics, categories, conn, last_connection_time, cache, now,
                   sessions, events, threads>>

ExtractNumerator ==
    /\ request.kind = "row"
    /\ request' = [request EXCEPT !.kind = "_extract_numerator"]
    /\ response' = _extract_numerator(request.row)
    /\ UNCHANGED <<metrics, categories, conn, last_connection_time, cache, now,
                   sessions, events, threads>>

NextExtract ==
    \/ ExtractValue
    \/ ExtractNumerator

SpecExtract == InitExtract /\ [][NextExtract]_vars

\* The candidates of the list whose column is in the row with a non-null cell
NonNullCandidates(row, columns) ==
    {i \in 1..Len(columns) : columns[i] \in DOMAIN row /\ ~IsNull(row[columns[i]])}

\* The first of them
FirstNonNull(row, columns) ==
    CHOOSE i \in NonNullCandidates(row, columns) :
        \A j \in NonNullCandidates(row, columns) : i <= j

\* C24: extraction tries the candidates in their fixed order, skips a
\* candidate whose column is absent or whose cell is null, and takes the
\* value from the first candidate with a non-null cell (none gives None for
\* the value and 0 for the numerator); a row that carries both casings of a
\* column is treated the same way.
C24_FirstNonNullSupplies ==
    /\ request.kind = "_extract_value" =>
          LET columns == value_columns(request.metric_type)
          IN IF NonNullCandidates(request.row, columns) = {}
             THEN response = Ok(NoneV)
             ELSE response = Ok(request.row[columns[FirstNonNull(request.row, columns)]])
    /\ request.kind = "_extract_numerator" =>
          IF NonNullCandidates(request.row, numerator_columns) = {}
          THEN response = Ok(0)
          ELSE response =
              Ok(request.row[numerator_columns[
                    FirstNonNull(request.row, numerator_columns)]].int)

(***************************************************************************)
(* State machine of the registry: register_metric called again and again   *)
(* on the registry that register_all_metrics filled, with new keys and     *)
(* with keys that exist, under the same and under another category.        *)
(***************************************************************************)
\* MetricsRegistry.get_categories: the category set (returned sorted)
get_categories == categories

\* MetricsRegistry.get_metrics_by_category
get_metrics_by_category(category) ==
    SelectSeq(metrics, LAMBDA config : config.category = category)

\* What callers register: two definitions of a new key, a registered key
\* under another category and back under its own, a registered key
\* with another title, and a second new key
RegistryConfigs ==
    ExtraConfigs \cup
    {MetricConfig("custom_metric", "Custom Metric v2", "Marketing", "currency",
                  "facebook_lead_ads_summary_sql", NoneV, FALSE),
     MetricConfig("platform_breakdown", "Platform Breakdown", "Marketing",
                  "list", "platform_summary_sql", Str("platform_details_sql"), FALSE),
     MetricConfig("platform_breakdown", "Platform Breakdown", "Product & IT",
                  "list", "platform_summary_sql", Str("platform_details_sql"), FALSE),
     MetricConfig("root_cause_pareto", "Root Causes", "Finance",
                  "pareto", "pareto_summary_sql", Str("pareto_details_sql"), FALSE),
     MetricConfig("second_metric", "Second Metric", "Sales", "count",
                  "facebook_lead_ads_summary_sql", NoneV, FALSE)}

NextRegistry == \E config \in RegistryConfigs : RegisterMetric(config)

SpecRegistry == Init /\ [][NextRegistry]_vars

RegisterReturned == request.kind = "register_metric"

\* C22: registry keys stay unique under any sequence of register calls:
\* registering an existing key overwrites its entry, get(key) returns the
\* definition registered last, getAll holds one entry per key, and the
\* entries of the other keys are left as they were.
C22_LastWriteWins ==
    /\ [](/\ Cardinality(DictKeys(get_all_metrics)) = Len(get_all_metrics)
          /\ RegisterReturned => get_metric(request.config.key) = request.config)
    /\ [][RegisterReturned' =>
            \A k \in DictKeys(metrics) \cup DictKeys(metrics') :
                k # request'.config.key =>
                    /\ k \in DictKeys(metrics) /\ k \in DictKeys(metrics')
                    /\ metrics'[DictGet(metrics', k)] = metrics[DictGet(metrics, k)]]_vars

\* A key that was registered was registered again with another definition
C22_Witness ==
    /\ RegisterReturned
    /\ request.config.key = "custom_metric"
    /\ request.config.category = "Marketing"
    /\ "Operations" \in categories
    /\ Len(metrics) = Len(RegisteredCatalog) + 1

\* C30: after any sequence of register_metric calls every category that
\* get_categories lists has at least one registered metric.
C30_NoEmptyCategory ==
    \A category \in get_categories : get_metrics_by_category(category) # << >>

\* A direct call of execute_query, and whether it got a session to run on
QueryCall == request.kind = "execute_query"
GotSession == events.connect # "fail"

ClosesShared == conn # NoneV /\ conn.open /\ conn' # NoneV
                /\ conn'.id = conn.id /\ ~conn'.open

\* C25: with concurrent requests on the one service object, get_connection
\* never closes a session on which another caller's query is still running.
C25_NoCloseUnderQuery ==
    [][ClosesShared =>
          \A t \in Threads : Running(t) => threads[t].conn.id # conn.id]_vars

\* This step replaces the service's session by a newly created one
ReplacesShared == conn # NoneV /\ conn' # NoneV /\ conn'.id # conn.id

\* C26: every session the connection manager ever created is its current
\* handle or has had close() invoked on it.  close() is only ever invoked on
\* the current handle, so this says that a session which stops being the
\* current handle was closed before it was replaced, also when concurrent
\* get_connection calls both saw an absent or stale handle.
C26_NoOrphanSession ==
    [][ReplacesShared => ~conn.open]_vars

(***************************************************************************)
(* State machine of requests that name no runnable query, among requests   *)
(* that do: the service with unknown keys, a metric registered without a   *)
(* details builder, and one registered metric that opens and ages sessions *)
(***************************************************************************)
FrameKeys == {"nonexistent_key", "custom_metric", "facebook_lead_ads_total"}

NextFrame ==
    \/ \E k \in FrameKeys, d \in {DefaultRange} :
         \E env \in MetricEnvs(k) :
            CalculateMetric(k, d[1], d[2], env.ok, env.reaction)
    \/ \E k \in FrameKeys, d \in {DefaultRange}, p \in {EmptyParams} :
         \E env \in DetailsEnvs(k, d[1], d[2], p) :
            MetricDetails(k, d[1], d[2], p, env.ok, env.reaction)
    \/ \E c \in ExtraConfigs : RegisterMetric(c)
    \/ Tick

SpecFrame == Init /\ [][NextFrame]_vars

\* The request names a key the registry does not hold
UnknownKey(req) == req.key \notin DictKeys(metrics)

\* The request names a registered metric that has no details builder
NoBuilderFor(req) ==
    /\ req.key \in DictKeys(metrics)
    /\ get_metric(req.key).details_query_func = NoneV

\* This step is a call that has no query to run
CallWithoutQuery ==
    /\ now' = now
    /\ request'.kind \in {"calculate_metric", "metric_details"}
    /\ request'.at = now
    /\ \/ request'.kind = "calculate_metric" /\ UnknownKey(request')
       \/ request'.kind = "metric_details"
            /\ (UnknownKey(request') \/ NoBuilderFor(request'))

\* C27: calculate_metric with an unregistered key, and get_metric_details
\* with an unregistered key or a metric without details builder, issue no
\* query and leave the connection manager as it was: no session is created,
\* closed or replaced and last_connection_time is untouched.
C27_NoQueryNoConnection ==
    [][CallWithoutQuery =>
          /\ events'.queries = 0
          /\ events'.connect = "none"
          /\ conn' = conn
          /\ last_connection_time' = last_connection_time
          /\ sessions' = sessions]_vars

\* Details were asked of a metric without builder when the session had
\* gone stale, and the stale session is still there, open
C27_Witness ==
    /\ request.kind = "metric_details"
    /\ NoBuilderFor(request)
    /\ events.queries = 0
    /\ conn # NoneV
    /\ conn.open
    /\ request.at - last_connection_time.v > connection_timeout

\* The request carries parameters, each of them announced by the
\* param_options of a registered metric that requires parameters
DeclaredParams(req) ==
    /\ Registered(req.key)
    /\ get_metric(req.key).requires_params
    /\ req.params # EmptyParams
    /\ DOMAIN req.params \subseteq param_options(req.key)

\* C28: get_metric_details with a parameter the metric's param_options name
\* builds the details query and issues it; when the warehouse answers, the
\* call returns the cleaned rows, and it ends in the swallowed-failure empty
\* result only when the connection or the query failed.
C28_DeclaredParamIsAccepted ==
    (DetailsReturned /\ DeclaredParams(request)) =>
        /\ events.connect # "fail" => events.queries = 1
        /\ events.reaction = "frame" =>
              /\ events.caught = NoneV
              /\ events.details = Ok(ListV(clean_dataframe_for_json(events.frame.df)))
        /\ events.caught # NoneV =>
              (events.connect = "fail" \/ events.reaction = "fail")


====
